---- MODULE Spec2Model ----
(***************************************************************************)
(* Queue Matrix dashboard: the summary view (queue-matrix-content.tsx) and *)
(* the detail view ([queueId]/page.tsx) as one state machine.              *)
(*                                                                         *)
(* A string is a sequence of one-character strings, so that toLowerCase    *)
(* and includes are computed character by character.  A Date is the number *)
(* of its local calendar day (days since 1970-01-01); the time of day is   *)
(* dropped, as format(d, "yyyy-MM-dd") drops it.                           *)
(*                                                                         *)
(* A setState and the render that follows it are one step; what a closure  *)
(* created by an earlier render still holds (the dates in fetchQueueData,  *)
(* the queueId in an effect) is kept with the request or timer that holds  *)
(* it.  Fields and variables marked history record what happened and are   *)
(* read by no action.                                                      *)
(*                                                                         *)
(* Spec      every handler of both views.  Its state graph is the product  *)
(*           of the scopes below and is not enumerated; each scope takes   *)
(*           some of the disjuncts of Next.                                *)
(* FetchSpec both views: the fetches, apply, reset, quick ranges, search.  *)
(* LiveSpec  the steps of FetchSpec that issue and settle requests, with   *)
(*           every settlement and timer weakly fair.                       *)
(* RangeSpec the date range controls of the summary view (calendars,       *)
(*           popovers, quick ranges) around the fetches of mount and apply.*)
(* RangeResetSpec  RangeSpec with reset and its timer.                     *)
(* FilterSpec the search filter applied to drawn rows and drawn terms.     *)
(* NavSpec   the selection of a row, with drawn rows and a drawn range.    *)
(***************************************************************************)
EXTENDS Integers, Sequences, FiniteSets, TLC

(* ------------------------------ bounds -------------------------------- *)
\* number of requests one run issues
MaxRequests == 3
\* rows held when the filter is applied to drawn inputs
MaxFilterRows == 2
\* characters in a drawn search term
MaxFilterTermLen == 2
\* the day of the run: 19783 is 2024-03-01
BaseDay == 19783

(* ------------------------- program constants -------------------------- *)
DefaultWindowDays == 30
QuickRangeDays == {7, 30}
MaxWaitTime == 60
\* a Date | undefined state holding undefined
NoDate == -1
\* a field left out of the JSON request body
Absent == "absent"
\* QueueData | null holding null
Null == [null |-> TRUE]
\* no toast() call made so far
NoToast == [variant |-> "none"]
\* no response received so far
NoResponse == [req |-> 0]
\* no rows received so far, so no request whose rows are held
NoBody == [preparedStatement |-> "none"]
\* router.push not called so far
NoRoute == [href |-> "none"]

(* ------------------------------ strings ------------------------------- *)
Chars == {"Q", "q", "1", "2"}

Q1 == <<"Q", "1">>
q1 == <<"q", "1">>
Q2 == <<"Q", "2">>
EmptyString == <<>>
\* the queue identifiers of the server's rows
QueueIds == {Q1, Q2}

UpperToLower == ("Q" :> "q")

LowerChar(c) == IF c \in DOMAIN UpperToLower THEN UpperToLower[c] ELSE c

\* String.prototype.toLowerCase
ToLowerCase(s) == [i \in 1..Len(s) |-> LowerChar(s[i])]

\* String.prototype.includes: a scan over the start positions
RECURSIVE IncludesFrom(_, _, _)
IncludesFrom(s, t, i) ==
    IF i + Len(t) > Len(s) THEN FALSE
    ELSE IF SubSeq(s, i + 1, i + Len(t)) = t THEN TRUE
    ELSE IncludesFrom(s, t, i + 1)

Includes(s, t) == IncludesFrom(s, t, 0)

RECURSIVE SeqsUpTo(_, _)
SeqsUpTo(S, n) ==
    IF n = 0 THEN {<<>>}
    ELSE LET shorter == SeqsUpTo(S, n - 1)
         IN  shorter \cup {Append(s, x) : s \in shorter, x \in S}

\* what the user types while requests are under way
SearchTerms == {EmptyString, <<"q">>}

\* the search terms and rows the filter is applied to
FilterTerms == SeqsUpTo(Chars, MaxFilterTermLen)

(* ------------------------------- dates -------------------------------- *)
\* the civil date <<year, month, day>> of a day number
CivilFromDays(days) ==
    LET z   == days + 719468
        era == z \div 146097
        doe == z - era * 146097
        yoe == (doe - doe \div 1460 + doe \div 36524 - doe \div 146096) \div 365
        doy == doe - (365 * yoe + yoe \div 4 - yoe \div 100)
        mp  == (5 * doy + 2) \div 153
        d   == doy - (153 * mp + 2) \div 5 + 1
        m   == IF mp < 10 THEN mp + 3 ELSE mp - 9
        y   == yoe + era * 400 + (IF m <= 2 THEN 1 ELSE 0)
    IN  <<y, m, d>>

Pad2(n) == IF n < 10 THEN "0" \o ToString(n) ELSE ToString(n)

\* date-fns format(date, "yyyy-MM-dd")
FormatYMD(date) ==
    LET c == CivilFromDays(date)
    IN  ToString(c[1]) \o "-" \o Pad2(c[2]) \o "-" \o Pad2(c[3])

\* date-fns subDays(date, amount)
SubDays(date, amount) == date - amount

\* new Date(), as a day: a run stays within one day
Today == BaseDay

\* the days picked in the calendars
PickDates == {BaseDay - 1}

(* ----------------------------- responses ------------------------------ *)
QueueRow(id) == [queue_id |-> id]
\* the data arrays an aggregate response can carry
Datasets == {<<>>, <<QueueRow(Q1)>>, <<QueueRow(Q2), QueueRow(Q1)>>}

FilterQueueIds == {Q1, q1, Q2, <<"q", "Q", "1">>}
FilterDatasets ==
    SeqsUpTo({QueueRow(id) : id \in FilterQueueIds}, MaxFilterRows)

\* identifiers with characters an address gives a meaning to
QSlash1 == <<"Q", "/", "1">>
NavQueueIds == {Q1, QSlash1, <<"q", " ", "%">>, <<"?", "&", "#">>}
NavDatasets == {<<QueueRow(id)>> : id \in NavQueueIds}
               \cup {<<QueueRow(Q1), QueueRow(QSlash1)>>}

DetailRecord(n, id) == [contact_id |-> n, queue |-> id]
DetailSets == {<<>>, <<DetailRecord(1, Q1)>>}

\* a response that is ok and parses
Ok(data, rowCount) == [kind |-> "ok", data |-> data, rowCount |-> rowCount]

\* the rowCount an envelope carries with its rows: their number, or another
\* number, as nothing makes the server's rowCount agree with data.length
RowCounts(data) == {Len(data), 1}

\* the ways a fetch fails: !response.ok, fetch() rejecting, response.json()
\* rejecting
Failures == {[kind |-> "http", text |-> "Internal Server Error"],
             [kind |-> "network", text |-> "Failed to fetch"],
             [kind |-> "json", text |-> "Unexpected end of JSON input"]}

\* error.message of the Error the catch block receives
ErrorMessage(f) ==
    IF f.kind = "http" THEN "API error: " \o f.text ELSE f.text

VARIABLES
    page,             \* which view this run shows: "summary" or "detail"
    mounted,          \* the effects of the first render have run
    nextId,           \* identifier of the next request (history)
    inflight,         \* requests issued and not settled
    toast,            \* the latest toast() call
    lastResponse,     \* the latest response or failure delivered (history)
    maxOkId,          \* the newest request that has succeeded so far (history)
    heldBody,         \* body of the request whose rows are held (history)
    lastQueueResponse, \* latest delivery to the detail view's aggregate
                      \* request (history)
    route,            \* the address last handed to router.push
    \* summary view
    queueData, isLoadingQueues, searchTerm, startDate, endDate,
    isStartDateOpen, isEndDateOpen,
    timers,           \* pending setTimeout callbacks, in firing order
    \* detail view
    queueId, detailQueueData, detailData, isLoadingQueue, isLoadingDetails

envVars == <<page, mounted, nextId, inflight, toast, lastResponse,
             maxOkId, heldBody, lastQueueResponse, route>>
summaryVars == <<queueData, isLoadingQueues, searchTerm, startDate, endDate,
                 isStartDateOpen, isEndDateOpen, timers>>
detailVars == <<queueId, detailQueueData, detailData, isLoadingQueue,
                isLoadingDetails>>
historyVars == <<lastResponse, maxOkId, heldBody, lastQueueResponse>>
vars == <<envVars, summaryVars, detailVars>>

Outstanding(kind) == {r \in inflight : r.kind = kind}

\* the history of a delivery: which request, and what came back
Delivered(r, resp) ==
    /\ lastResponse' = [req |-> r.id, kind |-> r.kind, resp |-> resp]
    /\ maxOkId' = IF resp.kind = "ok" /\ r.id > maxOkId THEN r.id ELSE maxOkId
    /\ heldBody' = IF r.kind = "summary" /\ resp.kind = "ok"
                   THEN r.body ELSE heldBody
    /\ lastQueueResponse' = IF r.kind = "queue"
                            THEN [req |-> r.id, resp |-> resp]
                            ELSE lastQueueResponse

\* the toast of a catch block
ErrorToast(title, f) ==
    [variant |-> "destructive", title |-> title,
     description |-> ErrorMessage(f)]

(* ---------------------------- summary view ---------------------------- *)
\* the JSON body fetchQueueData builds from the dates of its closure
RequestBody(sd, ed) ==
    [preparedStatement |-> "prep_distbyqueue",
     waitForResults |-> TRUE,
     maxWaitTime |-> MaxWaitTime,
     startDate |-> IF sd # NoDate THEN FormatYMD(sd) ELSE Absent,
     endDate |-> IF ed # NoDate THEN FormatYMD(ed) ELSE Absent]

\* fetchQueueData up to its await: sd, ed are the dates of the render whose
\* closure runs.  trigger, wantStart, wantEnd and held are history: what
\* started the fetch, the range it was started for, the rows held then.
FetchQueueData(sd, ed, trigger, wantStart, wantEnd) ==
    /\ nextId <= MaxRequests
    /\ isLoadingQueues' = TRUE
    /\ inflight' = inflight \cup
          {[id |-> nextId, kind |-> "summary", body |-> RequestBody(sd, ed),
            trigger |-> trigger, wantStart |-> wantStart, wantEnd |-> wantEnd,
            held |-> queueData]}
    /\ nextId' = nextId + 1

\* useEffect(() => { fetchQueueData() }, [])
Mount ==
    /\ page = "summary"
    /\ ~mounted
    /\ mounted' = TRUE
    /\ FetchQueueData(startDate, endDate, "mount", startDate, endDate)
    /\ UNCHANGED <<page, toast, historyVars, route, queueData,
                   searchTerm, startDate, endDate, isStartDateOpen,
                   isEndDateOpen, timers>>
    /\ UNCHANGED detailVars

\* the toast of the success path
SuccessToast(rowCount) ==
    [variant |-> "default", title |-> "Data loaded successfully",
     description |-> <<"Showing", rowCount,
                       IF rowCount # 1 THEN "queues" ELSE "queue">>]

\* a sequencing token: an older response is dropped
SetQueueDataSequenced(r, data) == IF r.id > maxOkId THEN data ELSE queueData

\* setQueueData(result.data) of request r
SetQueueData(r, data) == data

\* a catch block with no finally block after it
CatchQueueDataNoFinally(r, f) ==
    /\ toast' = ErrorToast("Failed to load queue data", f)
    /\ UNCHANGED <<queueData, isLoadingQueues>>

\* a catch block that also empties the table
CatchQueueDataClears(r, f) ==
    /\ toast' = ErrorToast("Failed to load queue data", f)
    /\ isLoadingQueues' = FALSE
    /\ queueData' = <<>>

\* the catch block and the finally block of fetchQueueData
CatchQueueData(r, f) ==
    /\ toast' = ErrorToast("Failed to load queue data", f)
    /\ isLoadingQueues' = FALSE
    /\ UNCHANGED queueData

\* fetchQueueData after its await: resp is what fetch and response.json()
\* delivered
FetchQueueDataSettle(r, resp) ==
    /\ page = "summary"
    /\ r \in Outstanding("summary")
    /\ IF resp.kind = "ok"
       THEN /\ queueData' = SetQueueData(r, resp.data)
            /\ toast' = SuccessToast(resp.rowCount)
            /\ isLoadingQueues' = FALSE
       ELSE CatchQueueData(r, resp)
    /\ inflight' = inflight \ {r}
    /\ Delivered(r, resp)
    /\ UNCHANGED <<page, mounted, nextId, route, searchTerm, startDate,
                   endDate, isStartDateOpen, isEndDateOpen, timers>>
    /\ UNCHANGED detailVars

\* the Apply Filter button, disabled while isLoadingQueues
HandleApplyFilter ==
    /\ page = "summary" /\ mounted
    /\ ~isLoadingQueues
    /\ FetchQueueData(startDate, endDate, "apply", startDate, endDate)
    /\ UNCHANGED <<page, mounted, toast, historyVars, route,
                   queueData, searchTerm, startDate, endDate, isStartDateOpen,
                   isEndDateOpen, timers>>
    /\ UNCHANGED detailVars

\* the fetchQueueData a click on Reset hands to setTimeout: the one of the
\* render that handled the click, whose closure holds that render's dates
ResetClosure(sd, ed) == [startDate |-> sd, endDate |-> ed]

\* the Reset button, disabled while isLoadingQueues.  wantStart and wantEnd
\* are history: the window the click restored.
HandleResetFilter ==
    /\ page = "summary" /\ mounted
    /\ ~isLoadingQueues
    /\ nextId + Len(timers) <= MaxRequests
    /\ startDate' = SubDays(Today, DefaultWindowDays)
    /\ endDate' = Today
    /\ timers' = Append(timers,
          [fetch |-> ResetClosure(startDate, endDate),
           wantStart |-> SubDays(Today, DefaultWindowDays), wantEnd |-> Today])
    /\ UNCHANGED <<envVars, queueData, isLoadingQueues, searchTerm,
                   isStartDateOpen, isEndDateOpen>>
    /\ UNCHANGED detailVars

\* the setTimeout(() => fetchQueueData(), 0) callback
ResetTimeout ==
    /\ page = "summary"
    /\ timers # <<>>
    /\ LET t == Head(timers)
       IN  FetchQueueData(t.fetch.startDate, t.fetch.endDate, "reset",
                          t.wantStart, t.wantEnd)
    /\ timers' = Tail(timers)
    /\ UNCHANGED <<page, mounted, toast, historyVars, route,
                   queueData, searchTerm, startDate, endDate, isStartDateOpen,
                   isEndDateOpen>>
    /\ UNCHANGED detailVars

\* a quick range that moves the start date only
SetQuickRangeStartOnly(days) ==
    /\ page = "summary" /\ mounted
    /\ startDate' = SubDays(Today, days)
    /\ UNCHANGED <<envVars, queueData, isLoadingQueues, searchTerm, endDate,
                   isStartDateOpen, isEndDateOpen, timers>>
    /\ UNCHANGED detailVars

\* setQuickRange(days), the Last 7 Days and Last 30 Days buttons
SetQuickRange(days) ==
    /\ page = "summary" /\ mounted
    /\ startDate' = SubDays(Today, days)
    /\ endDate' = Today
    /\ UNCHANGED <<envVars, queueData, isLoadingQueues, searchTerm,
                   isStartDateOpen, isEndDateOpen, timers>>
    /\ UNCHANGED detailVars

\* onOpenChange of the start date popover
SetIsStartDateOpen(open) ==
    /\ page = "summary" /\ mounted
    /\ open # isStartDateOpen
    /\ isStartDateOpen' = open
    /\ UNCHANGED <<envVars, queueData, isLoadingQueues, searchTerm, startDate,
                   endDate, isEndDateOpen, timers>>
    /\ UNCHANGED detailVars

\* onOpenChange of the end date popover
SetIsEndDateOpen(open) ==
    /\ page = "summary" /\ mounted
    /\ open # isEndDateOpen
    /\ isEndDateOpen' = open
    /\ UNCHANGED <<envVars, queueData, isLoadingQueues, searchTerm, startDate,
                   endDate, isStartDateOpen, timers>>
    /\ UNCHANGED detailVars

\* onSelect of the start date calendar; date is NoDate when the selected day
\* is clicked again
SelectStartDate(date) ==
    /\ page = "summary" /\ mounted
    /\ isStartDateOpen
    /\ date = NoDate => startDate # NoDate
    /\ startDate' = date
    /\ isStartDateOpen' = FALSE
    /\ UNCHANGED <<envVars, queueData, isLoadingQueues, searchTerm, endDate,
                   isEndDateOpen, timers>>
    /\ UNCHANGED detailVars

\* onSelect of the end date calendar
SelectEndDate(date) ==
    /\ page = "summary" /\ mounted
    /\ isEndDateOpen
    /\ date = NoDate => endDate # NoDate
    /\ endDate' = date
    /\ isEndDateOpen' = FALSE
    /\ UNCHANGED <<envVars, queueData, isLoadingQueues, searchTerm, startDate,
                   isStartDateOpen, timers>>
    /\ UNCHANGED detailVars

\* a search input that queries the server as the user types
SetSearchTermFetches(term) ==
    /\ page = "summary" /\ mounted
    /\ term # searchTerm
    /\ searchTerm' = term
    /\ FetchQueueData(startDate, endDate, "apply", startDate, endDate)
    /\ UNCHANGED <<page, mounted, toast, historyVars, route, queueData,
                   startDate, endDate, isStartDateOpen, isEndDateOpen, timers>>
    /\ UNCHANGED detailVars

\* onChange of the search input
SetSearchTerm(term) ==
    /\ page = "summary" /\ mounted
    /\ term # searchTerm
    /\ searchTerm' = term
    /\ UNCHANGED <<envVars, queueData, isLoadingQueues, startDate, endDate,
                   isStartDateOpen, isEndDateOpen, timers>>
    /\ UNCHANGED detailVars

\* a match that lowers the search term only
QueueMatchesCaseSensitive(queue, term) ==
    Includes(queue.queue_id, ToLowerCase(term))

\* queue.queue_id.toLowerCase().includes(searchTerm.toLowerCase())
QueueMatches(queue, term) ==
    Includes(ToLowerCase(queue.queue_id), ToLowerCase(term))

\* the rows the table renders
filteredQueues ==
    SelectSeq(queueData, LAMBDA queue : QueueMatches(queue, searchTerm))

(* ----------------------------- navigation ----------------------------- *)
\* the characters encodeURIComponent leaves as they are
Unreserved ==
    {"A", "B", "C", "D", "E", "F", "G", "H", "I", "J", "K", "L", "M", "N",
     "O", "P", "Q", "R", "S", "T", "U", "V", "W", "X", "Y", "Z",
     "a", "b", "c", "d", "e", "f", "g", "h", "i", "j", "k", "l", "m", "n",
     "o", "p", "q", "r", "s", "t", "u", "v", "w", "x", "y", "z",
     "0", "1", "2", "3", "4", "5", "6", "7", "8", "9",
     "-", "_", ".", "!", "~", "*", "'", "(", ")"}

\* the code units of the other characters a drawn identifier holds
CharCode ==
    (" " :> 32) @@ ("#" :> 35) @@ ("%" :> 37) @@ ("&" :> 38) @@
    ("/" :> 47) @@ ("?" :> 63)

HexDigits == <<"0", "1", "2", "3", "4", "5", "6", "7", "8", "9",
               "A", "B", "C", "D", "E", "F">>

\* the escape of one byte: a percent sign and two upper case hex digits
PercentEscape(code) ==
    <<"%", HexDigits[(code \div 16) + 1], HexDigits[(code % 16) + 1]>>

\* encodeURI, which also leaves the delimiters of an address as they are
EncodeCharAsURI(c) ==
    IF c \in Unreserved \cup {"/", "?", "&", "#"} THEN <<c>>
    ELSE PercentEscape(CharCode[c])

EncodeChar(c) ==
    IF c \in Unreserved THEN <<c>> ELSE PercentEscape(CharCode[c])

\* encodeURIComponent
RECURSIVE EncodeURIComponent(_)
EncodeURIComponent(s) ==
    IF s = <<>> THEN <<>>
    ELSE EncodeChar(Head(s)) \o EncodeURIComponent(Tail(s))

\* the characters of s as one string of a template literal
RECURSIVE Concat(_)
Concat(s) == IF s = <<>> THEN "" ELSE Head(s) \o Concat(Tail(s))

\* new URLSearchParams() after the params.set calls of handleViewDetails
SearchParams(sd, ed) ==
    (IF sd # NoDate THEN << <<"startDate", FormatYMD(sd)>> >> ELSE <<>>)
    \o (IF ed # NoDate THEN << <<"endDate", FormatYMD(ed)>> >> ELSE <<>>)

\* URLSearchParams.toString: name=value pairs joined by "&".  The names and
\* the yyyy-MM-dd values hold letters, digits and "-" only, which the form
\* encoding leaves as they are.
RECURSIVE SearchParamsToString(_)
SearchParamsToString(params) ==
    IF params = <<>> THEN ""
    ELSE Head(params)[1] \o "=" \o Head(params)[2]
         \o (IF Tail(params) = <<>> THEN ""
             ELSE "&" \o SearchParamsToString(Tail(params)))

\* the address handleViewDetails pushes; segment and params are history
DetailAddress(id, sd, ed) ==
    [href |-> "/queues/matrix/" \o Concat(EncodeURIComponent(id)) \o "?"
              \o SearchParamsToString(SearchParams(sd, ed)),
     segment |-> EncodeURIComponent(id),
     params |-> SearchParams(sd, ed)]

\* a click on the identifier or on View Details of a rendered row
HandleViewDetails(id) ==
    /\ page = "summary"
    /\ ~isLoadingQueues
    /\ \E i \in 1..Len(filteredQueues) : filteredQueues[i].queue_id = id
    /\ route' = DetailAddress(id, startDate, endDate)
    /\ UNCHANGED <<page, mounted, nextId, inflight, toast, historyVars>>
    /\ UNCHANGED summaryVars
    /\ UNCHANGED detailVars

(* ---------------------------- detail view ----------------------------- *)
\* the body of the aggregate request of the detail view
DetailQueueBody ==
    [preparedStatement |-> "prep_distbyqueue",
     waitForResults |-> TRUE,
     maxWaitTime |-> MaxWaitTime]

\* the body of the call record request
DetailBody(id) ==
    [preparedStatement |-> "prep_distbyqueue_dd",
     parameters |-> <<id>>,
     waitForResults |-> TRUE,
     maxWaitTime |-> MaxWaitTime]

\* the two effects of a render with queue identifier id, each up to its
\* await; both return at once when the identifier is empty.  The queueId of a
\* request is the one its closure holds.  A run of the effects starts while
\* fewer than MaxRequests requests have been issued.
RunEffects(id) ==
    IF id = EmptyString
    THEN UNCHANGED <<nextId, inflight, isLoadingQueue, isLoadingDetails>>
    ELSE /\ nextId <= MaxRequests
         /\ isLoadingQueue' = TRUE
         /\ isLoadingDetails' = TRUE
         /\ inflight' = inflight \cup
               {[id |-> nextId, kind |-> "queue", body |-> DetailQueueBody,
                 queueId |-> id],
                [id |-> nextId + 1, kind |-> "detail", body |-> DetailBody(id),
                 queueId |-> id]}
         /\ nextId' = nextId + 2

\* the effects after the first render
DetailMount ==
    /\ page = "detail"
    /\ ~mounted
    /\ mounted' = TRUE
    /\ RunEffects(queueId)
    /\ UNCHANGED <<page, toast, historyVars, route, queueId,
                   detailQueueData, detailData>>
    /\ UNCHANGED summaryVars

\* the path's queue identifier changes: a render with the new identifier,
\* then the effects, whose dependency queueId has changed
ParamChange(id) ==
    /\ page = "detail" /\ mounted
    /\ id # queueId
    /\ queueId' = id
    /\ RunEffects(id)
    /\ UNCHANGED <<page, mounted, toast, historyVars, route,
                   detailQueueData, detailData>>
    /\ UNCHANGED summaryVars

\* result.data.find(q => q.queue_id === queueId)
RECURSIVE FindQueue(_, _)
FindQueue(data, id) ==
    IF data = <<>> THEN Null
    ELSE IF Head(data).queue_id = id THEN Head(data)
    ELSE FindQueue(Tail(data), id)

\* one catch block shared by the two fetches
CatchDetailQueueShared(r, f) ==
    /\ toast' = ErrorToast("Failed to load queue data", f)
    /\ isLoadingQueue' = FALSE
    /\ isLoadingDetails' = FALSE
    /\ UNCHANGED <<detailQueueData, detailData>>

\* the catch block and the finally block of the aggregate fetch
CatchDetailQueue(r, f) ==
    /\ toast' = ErrorToast("Failed to load queue data", f)
    /\ isLoadingQueue' = FALSE
    /\ UNCHANGED <<detailQueueData, detailData, isLoadingDetails>>

\* fetchQueueData of the detail view after its await
DetailQueueSettle(r, resp) ==
    /\ page = "detail"
    /\ r \in Outstanding("queue")
    /\ IF resp.kind = "ok"
       THEN /\ detailQueueData' = FindQueue(resp.data, r.queueId)
            /\ isLoadingQueue' = FALSE
            /\ UNCHANGED <<toast, detailData, isLoadingDetails>>
       ELSE CatchDetailQueue(r, resp)
    /\ inflight' = inflight \ {r}
    /\ Delivered(r, resp)
    /\ UNCHANGED <<page, mounted, nextId, route, queueId>>
    /\ UNCHANGED summaryVars

\* the catch block and the finally block of the call record fetch
CatchDetailData(r, f) ==
    /\ toast' = ErrorToast("Failed to load queue details", f)
    /\ isLoadingDetails' = FALSE
    /\ UNCHANGED <<detailData, detailQueueData, isLoadingQueue>>

\* fetchDetailData after its await
DetailDataSettle(r, resp) ==
    /\ page = "detail"
    /\ r \in Outstanding("detail")
    /\ IF resp.kind = "ok"
       THEN /\ detailData' = resp.data
            /\ isLoadingDetails' = FALSE
            /\ UNCHANGED <<toast, detailQueueData, isLoadingQueue>>
       ELSE CatchDetailData(r, resp)
    /\ inflight' = inflight \ {r}
    /\ Delivered(r, resp)
    /\ UNCHANGED <<page, mounted, nextId, route, queueId>>
    /\ UNCHANGED summaryVars

(* --------------------------- specification ---------------------------- *)
\* the path parameter: a queue identifier, or none
PathParams == QueueIds \cup {EmptyString}

QueueResponses ==
    UNION {{Ok(data, n) : n \in RowCounts(data)} : data \in Datasets}
    \cup Failures
DetailResponses == {Ok(data, Len(data)) : data \in DetailSets} \cup Failures

Init ==
    /\ page \in {"summary", "detail"}
    /\ mounted = FALSE
    /\ nextId = 1
    /\ inflight = {}
    /\ toast = NoToast
    /\ lastResponse = NoResponse
    /\ maxOkId = 0
    /\ heldBody = NoBody
    /\ lastQueueResponse = NoResponse
    /\ route = NoRoute
    /\ queueData = <<>>
    /\ isLoadingQueues = FALSE
    /\ searchTerm = EmptyString
    /\ startDate = SubDays(Today, DefaultWindowDays)
    /\ endDate = Today
    /\ isStartDateOpen = FALSE
    /\ isEndDateOpen = FALSE
    /\ timers = <<>>
    /\ queueId \in (IF page = "detail" THEN PathParams ELSE {EmptyString})
    /\ detailQueueData = Null
    /\ detailData = <<>>
    /\ isLoadingQueue = FALSE
    /\ isLoadingDetails = FALSE

Next ==
    \/ Mount
    \/ \E r \in inflight, resp \in QueueResponses : FetchQueueDataSettle(r, resp)
    \/ HandleApplyFilter
    \/ HandleResetFilter
    \/ ResetTimeout
    \/ \E days \in QuickRangeDays : SetQuickRange(days)
    \/ \E open \in BOOLEAN : SetIsStartDateOpen(open)
    \/ \E open \in BOOLEAN : SetIsEndDateOpen(open)
    \/ \E date \in PickDates \cup {NoDate} : SelectStartDate(date)
    \/ \E date \in PickDates \cup {NoDate} : SelectEndDate(date)
    \/ \E term \in SearchTerms : SetSearchTerm(term)
    \/ \E i \in 1..Len(filteredQueues) :
          HandleViewDetails(filteredQueues[i].queue_id)
    \/ DetailMount
    \/ \E id \in QueueIds : ParamChange(id)
    \/ \E r \in inflight, resp \in QueueResponses : DetailQueueSettle(r, resp)
    \/ \E r \in inflight, resp \in DetailResponses : DetailDataSettle(r, resp)

\* every handler of both views
Spec == Init /\ [][Next]_vars

\* the fetches of both views, with apply, reset, quick ranges and search
FetchNext ==
    \/ Mount
    \/ \E r \in inflight, resp \in QueueResponses : FetchQueueDataSettle(r, resp)
    \/ HandleApplyFilter
    \/ HandleResetFilter
    \/ ResetTimeout
    \/ \E days \in QuickRangeDays : SetQuickRange(days)
    \/ \E term \in SearchTerms : SetSearchTerm(term)
    \/ DetailMount
    \/ \E id \in QueueIds : ParamChange(id)
    \/ \E r \in inflight, resp \in QueueResponses : DetailQueueSettle(r, resp)
    \/ \E r \in inflight, resp \in DetailResponses : DetailDataSettle(r, resp)

FetchSpec == Init /\ [][FetchNext]_vars

\* the date range controls, between the fetches of mount and apply
RangeResponses == {Ok(<<QueueRow(Q1)>>, 1),
                   [kind |-> "network", text |-> "Failed to fetch"]}

RangeInit == Init /\ page = "summary"

RangeNext ==
    \/ Mount
    \/ \E r \in inflight, resp \in RangeResponses : FetchQueueDataSettle(r, resp)
    \/ HandleApplyFilter
    \/ \E days \in QuickRangeDays : SetQuickRange(days)
    \/ \E open \in BOOLEAN : SetIsStartDateOpen(open)
    \/ \E open \in BOOLEAN : SetIsEndDateOpen(open)
    \/ \E date \in PickDates \cup {NoDate} : SelectStartDate(date)
    \/ \E date \in PickDates \cup {NoDate} : SelectEndDate(date)

RangeSpec == RangeInit /\ [][RangeNext]_vars

\* the date range controls together with reset and its timer
RangeResetNext ==
    \/ RangeNext
    \/ HandleResetFilter
    \/ ResetTimeout

RangeResetSpec == RangeInit /\ [][RangeResetNext]_vars

\* the filter applied to drawn rows and terms: the summary view after its
\* first response
FilterInit ==
    /\ page = "summary"
    /\ mounted = TRUE
    /\ nextId = 2
    /\ inflight = {}
    /\ maxOkId = 1
    /\ \E data \in FilterDatasets :
          /\ queueData = data
          /\ toast = SuccessToast(Len(data))
          /\ lastResponse = [req |-> 1, kind |-> "summary",
                             resp |-> Ok(data, Len(data))]
    /\ heldBody = RequestBody(SubDays(Today, DefaultWindowDays), Today)
    /\ lastQueueResponse = NoResponse
    /\ route = NoRoute
    /\ isLoadingQueues = FALSE
    /\ searchTerm = EmptyString
    /\ startDate = SubDays(Today, DefaultWindowDays)
    /\ endDate = Today
    /\ isStartDateOpen = FALSE
    /\ isEndDateOpen = FALSE
    /\ timers = <<>>
    /\ queueId = EmptyString
    /\ detailQueueData = Null
    /\ detailData = <<>>
    /\ isLoadingQueue = FALSE
    /\ isLoadingDetails = FALSE

FilterNext == \E term \in FilterTerms : SetSearchTerm(term)

FilterSpec == FilterInit /\ [][FilterNext]_vars

\* selecting a row: the summary view after its first response, with drawn
\* rows and a drawn date range
NavInit ==
    /\ page = "summary"
    /\ mounted = TRUE
    /\ nextId = 2
    /\ inflight = {}
    /\ maxOkId = 1
    /\ \E data \in NavDatasets :
          /\ queueData = data
          /\ toast = SuccessToast(Len(data))
          /\ lastResponse = [req |-> 1, kind |-> "summary",
                             resp |-> Ok(data, Len(data))]
    /\ heldBody = RequestBody(SubDays(Today, DefaultWindowDays), Today)
    /\ lastQueueResponse = NoResponse
    /\ route = NoRoute
    /\ isLoadingQueues = FALSE
    /\ searchTerm = EmptyString
    /\ startDate \in {NoDate, SubDays(Today, DefaultWindowDays)} \cup PickDates
    /\ endDate \in {NoDate, Today} \cup PickDates
    /\ isStartDateOpen = FALSE
    /\ isEndDateOpen = FALSE
    /\ timers = <<>>
    /\ queueId = EmptyString
    /\ detailQueueData = Null
    /\ detailData = <<>>
    /\ isLoadingQueue = FALSE
    /\ isLoadingDetails = FALSE

NavNext ==
    \/ \E id \in NavQueueIds : HandleViewDetails(id)
    \/ \E term \in SearchTerms : SetSearchTerm(term)
    \/ \E days \in QuickRangeDays : SetQuickRange(days)

NavSpec == NavInit /\ [][NavNext]_vars

\* every request settles and every timer fires
Fairness ==
    /\ WF_vars(\E r \in inflight, resp \in QueueResponses :
                  FetchQueueDataSettle(r, resp))
    /\ WF_vars(\E r \in inflight, resp \in QueueResponses :
                  DetailQueueSettle(r, resp))
    /\ WF_vars(\E r \in inflight, resp \in DetailResponses :
                  DetailDataSettle(r, resp))
    /\ WF_vars(ResetTimeout)

\* the steps that issue and settle requests
LiveNext ==
    \/ Mount
    \/ \E r \in inflight, resp \in QueueResponses : FetchQueueDataSettle(r, resp)
    \/ HandleApplyFilter
    \/ HandleResetFilter
    \/ ResetTimeout
    \/ DetailMount
    \/ \E id \in QueueIds : ParamChange(id)
    \/ \E r \in inflight, resp \in QueueResponses : DetailQueueSettle(r, resp)
    \/ \E r \in inflight, resp \in DetailResponses : DetailDataSettle(r, resp)

LiveSpec == Init /\ [][LiveNext]_vars /\ Fairness

(* ------------------------------- claims ------------------------------- *)
\* the request a step settles, if any
Settles(r) == r \in inflight /\ lastResponse'.req = r.id

Failed(resp) == resp.kind # "ok"

\* C1: each loading flag is true exactly when a request of its kind has
\* been issued and has not settled, also when requests of a kind overlap.
C1_LoadingIffOutstanding ==
    /\ isLoadingQueues <=> Outstanding("summary") # {}
    /\ isLoadingQueue <=> Outstanding("queue") # {}
    /\ isLoadingDetails <=> Outstanding("detail") # {}

\* C2: when every request settles, each loading flag that is true becomes
\* false, and a flag is false whenever no request of its kind is outstanding.
C2_LoadingEnds ==
    /\ isLoadingQueues ~> ~isLoadingQueues
    /\ isLoadingQueue ~> ~isLoadingQueue
    /\ isLoadingDetails ~> ~isLoadingDetails
    /\ [](Outstanding("summary") = {} => ~isLoadingQueues)
    /\ [](Outstanding("queue") = {} => ~isLoadingQueue)
    /\ [](Outstanding("detail") = {} => ~isLoadingDetails)

\* a request has failed and no view is left loading
C2_Witness ==
    /\ lastResponse.req # 0
    /\ Failed(lastResponse.resp)
    /\ inflight = {}
    /\ ~isLoadingQueues /\ ~isLoadingQueue /\ ~isLoadingDetails

\* C3 as stated: when a summary fetch fails, the held rows are the rows held
\* when that fetch was issued.
C3_RowsAsAtIssue ==
    [][\A r \in Outstanding("summary") :
          Settles(r) /\ Failed(lastResponse'.resp) => queueData' = r.held]_vars

\* C3 as amended: when a summary fetch fails, the held rows are the rows
\* held just before the failure, the error toast carries the failure's
\* message, and the failure issues no request and schedules none.
C3_FailureLeavesRows ==
    [][\A r \in Outstanding("summary") :
          Settles(r) /\ Failed(lastResponse'.resp) =>
             /\ queueData' = queueData
             /\ toast' = [variant |-> "destructive",
                          title |-> "Failed to load queue data",
                          description |-> ErrorMessage(lastResponse'.resp)]
             /\ inflight' = inflight \ {r}
             /\ nextId' = nextId
             /\ timers' = timers]_vars

\* a summary fetch has failed while rows were held
C3_Witness ==
    /\ lastResponse.req # 0
    /\ lastResponse.kind = "summary"
    /\ Failed(lastResponse.resp)
    /\ queueData # <<>>
    /\ toast.variant = "destructive"

\* C4: in the detail view the settlement of the aggregate request leaves
\* detailData and isLoadingDetails as they were, and the settlement of the
\* call record request leaves the queue summary and isLoadingQueue as they
\* were.
C4_SectionsIndependent ==
    [][\A r \in inflight :
          Settles(r) =>
             /\ r.kind = "queue" => UNCHANGED <<detailData, isLoadingDetails>>
             /\ r.kind = "detail" =>
                   UNCHANGED <<detailQueueData, isLoadingQueue>>]_vars

\* the aggregate request has failed while the call records were still loading
C4_Witness ==
    /\ lastResponse.req # 0
    /\ lastResponse.kind = "queue"
    /\ Failed(lastResponse.resp)
    /\ isLoadingDetails
    /\ Outstanding("detail") # {}

\* C5: when the aggregate request of the detail view succeeds with no row
\* whose queue_id is the path's queue identifier, the queue summary becomes
\* null and no toast is raised.
C5_NotFoundWhenNoRowMatchesPath ==
    [][\A r \in Outstanding("queue") :
          ( /\ Settles(r)
            /\ lastResponse'.resp.kind = "ok"
            /\ \A i \in 1..Len(lastResponse'.resp.data) :
                  lastResponse'.resp.data[i].queue_id # queueId )
          => detailQueueData' = Null /\ toast' = toast]_vars

\* C6: the request a reset issues carries the window the reset restored, and
\* the request an apply issues carries the bounds selected then.
C6_RequestCarriesIntendedRange ==
    \A r \in Outstanding("summary") :
       r.body = RequestBody(r.wantStart, r.wantEnd)

\* C7: after a summary response has succeeded, the held rows are those of
\* the response that resolved last, whichever request was issued first.
C7_LastResolvedWins ==
    lastResponse.req # 0 /\ lastResponse.kind = "summary"
       /\ lastResponse.resp.kind = "ok"
    => queueData = lastResponse.resp.data

\* two fetches overlapped, the older one resolved after the newer one, and
\* its rows are held
C7_Witness ==
    /\ lastResponse.req # 0
    /\ lastResponse.kind = "summary"
    /\ lastResponse.resp.kind = "ok"
    /\ lastResponse.req < maxOkId
    /\ Outstanding("summary") = {}
    /\ queueData = lastResponse.resp.data
    /\ queueData # <<>>

\* queue_id contains term, case ignored: term lies at some offset
ContainsIgnoringCase(id, term) ==
    \E off \in 0..Len(id) :
       /\ off + Len(term) <= Len(id)
       /\ \A j \in 1..Len(term) : LowerChar(id[off + j]) = LowerChar(term[j])

\* the positions of the held rows that match the search term
MatchingPositions ==
    {i \in 1..Len(queueData) :
        ContainsIgnoringCase(queueData[i].queue_id, searchTerm)}

\* C8: the rendered rows are the held rows whose queue_id contains the search
\* term, case ignored, in the held order; an empty term renders every row.
C8_FilteredRows ==
    /\ Len(filteredQueues) = Cardinality(MatchingPositions)
    /\ \A k \in 1..Len(filteredQueues) :
          \E i \in MatchingPositions :
             /\ Cardinality({j \in MatchingPositions : j < i}) = k - 1
             /\ filteredQueues[k] = queueData[i]
    /\ searchTerm = EmptyString => filteredQueues = queueData

\* a typed term keeps a row whose queue_id differs from it in case, and
\* drops another row
C8_Witness ==
    /\ searchTerm # EmptyString
    /\ Len(filteredQueues) = 1
    /\ Len(queueData) = 2
    /\ ~Includes(filteredQueues[1].queue_id, searchTerm)
    /\ filteredQueues[1] = queueData[2]

\* C9: a step that changes the search term issues no request and leaves the
\* held rows, the loading flag and the date range as they were.
C9_SearchChangesNothingElse ==
    [][searchTerm' # searchTerm =>
          UNCHANGED <<inflight, nextId, timers, queueData, isLoadingQueues,
                      startDate, endDate>>]_vars

\* a term was typed while a request was outstanding
C9_Witness ==
    /\ searchTerm # EmptyString
    /\ Outstanding("summary") # {}
    /\ queueData # <<>>

\* C10: a quick-select of N days sets startDate to N days before today and
\* endDate to today in the same step, and issues no request.
C10_QuickRangeAtomic ==
    [][\A days \in QuickRangeDays :
          SetQuickRange(days) =>
             /\ startDate' = Today - days
             /\ endDate' = Today
             /\ UNCHANGED <<inflight, nextId, timers, isLoadingQueues>>]_vars

\* Last 7 Days was clicked, while a request was outstanding
C10_Witness ==
    /\ startDate = Today - 7
    /\ endDate = Today
    /\ Outstanding("summary") # {}

HexSet == {HexDigits[n] : n \in DOMAIN HexDigits}

\* the value of a hex digit
HexValue(h) == CHOOSE n \in 0..15 : HexDigits[n + 1] = h

\* the character a percent escape stands for, or "invalid"
Unescape(h1, h2) ==
    IF h1 \in HexSet /\ h2 \in HexSet
       /\ \E c \in DOMAIN CharCode :
              CharCode[c] = 16 * HexValue(h1) + HexValue(h2)
    THEN CHOOSE c \in DOMAIN CharCode :
              CharCode[c] = 16 * HexValue(h1) + HexValue(h2)
    ELSE "invalid"

\* the identifier an escaped path segment stands for
RECURSIVE Unescaped(_)
Unescaped(seg) ==
    IF seg = <<>> THEN <<>>
    ELSE IF Head(seg) # "%" THEN <<Head(seg)>> \o Unescaped(Tail(seg))
    ELSE IF Len(seg) < 3 THEN <<"invalid">>
    ELSE <<Unescape(seg[2], seg[3])>> \o Unescaped(SubSeq(seg, 4, Len(seg)))

\* the query of the address for the selected range
RangeQuery ==
    IF startDate # NoDate /\ endDate # NoDate
    THEN "startDate=" \o FormatYMD(startDate) \o "&endDate="
         \o FormatYMD(endDate)
    ELSE IF startDate # NoDate THEN "startDate=" \o FormatYMD(startDate)
    ELSE IF endDate # NoDate THEN "endDate=" \o FormatYMD(endDate)
    ELSE ""

\* C11: selecting a rendered row with identifier Q pushes the detail address
\* whose final path segment is Q URL-escaped (no delimiter of an address is
\* left in it, and unescaping it gives Q back) and whose query carries
\* startDate and endDate as yyyy-MM-dd, each only when set; the selection
\* issues no request, schedules none and changes no state of the summary view.
C11_SelectionNavigates ==
    [][\A id \in NavQueueIds :
          HandleViewDetails(id) =>
             /\ \A i \in 1..Len(route'.segment) :
                   route'.segment[i] \in Unreserved \cup {"%"}
             /\ Unescaped(route'.segment) = id
             /\ route'.href = "/queues/matrix/" \o Concat(route'.segment)
                              \o "?" \o RangeQuery
             /\ UNCHANGED <<inflight, nextId, timers, toast, queueData,
                            isLoadingQueues, searchTerm, startDate, endDate,
                            isStartDateOpen, isEndDateOpen>>]_vars

\* the row Q/1 was selected with only an end date set
C11_Witness ==
    /\ route # NoRoute
    /\ route.href = "/queues/matrix/Q%2F1?endDate=" \o FormatYMD(Today)
    /\ startDate = NoDate
    /\ endDate = Today
    /\ \E i \in 1..Len(filteredQueues) : filteredQueues[i].queue_id = QSlash1

\* a bound of the range as a request carries it
Sent(date) == IF date # NoDate THEN FormatYMD(date) ELSE Absent

\* C12: in the summary view, whenever rows are displayed (not loading), the
\* startDate and endDate of the state, which the caption shows and a
\* selection passes on, are the startDate and endDate sent in the request
\* whose response produced the held rows.
C12_ShownRangeIsSentRange ==
    /\ page = "summary"
    /\ ~isLoadingQueues
    /\ queueData # <<>>
    /\ heldBody # NoBody
    => /\ heldBody.startDate = Sent(startDate)
       /\ heldBody.endDate = Sent(endDate)

\* the summary section of the detail view renders "Queue not found"
NotFoundState == page = "detail" /\ ~isLoadingQueue /\ detailQueueData = Null

\* C13: once the aggregate request of the detail view has been issued, the
\* view is in the not-found state only after an aggregate response has been
\* received that contains no row matching the path's queue identifier: never
\* before the request has settled, and never after it has failed.  (The
\* first render, before the request is issued, is in the not-found state as
\* well.)
C13_NotFoundOnlyAfterNoMatch ==
    NotFoundState /\ nextId > 1 =>
       /\ lastQueueResponse # NoResponse
       /\ lastQueueResponse.resp.kind = "ok"
       /\ \A i \in 1..Len(lastQueueResponse.resp.data) :
             lastQueueResponse.resp.data[i].queue_id # queueId
====
